---- MODULE Spec2Model ----
(***************************************************************************)
(* A model of packages/apputils/src/instancetracker.ts: the two tracker    *)
(* classes InstanceTracker and WidgetTracker, the attached properties      *)
(* they share, and the collaborators they talk to (the state database,     *)
(* the command registry, the readiness promises, the focus tracker).       *)
(*                                                                         *)
(* One tracker is modelled; `variant` says which class it is.  JavaScript  *)
(* runs one task at a time, so every action below is one synchronous run   *)
(* of code: from a call (or a promise settling) to the next `await`.       *)
(***************************************************************************)
EXTENDS Integers, Sequences, FiniteSets, TLC

\* ------------------------------------------------------------- bounds
NItems == 2         \* objects that exist in the application
NNames == 2         \* non-empty names the naming function can give one object
NNamed == 1         \* objects (the first ones) that the naming function names
MaxQueue == 2       \* callers start no store-writing call with this many pending
MaxGates == 1       \* promises passed as `when`

Items == 1..NItems

\* ---------------------------------------------------------- constants
Null == 0                         \* `null`, as the value of `current`
Namespace == "ns"                 \* options.namespace
Command == "open"                 \* IRestoreOptions.command
NoName == <<>>                    \* '', the default of Private.nameProperty
Undefined == <<"undefined">>      \* `undefined`, as a value or a result

\* The store's JSON values: no record, an object without a `data` field,
\* an object {data}.
Absent == <<>>
WithoutData == <<"obj">>
WithData(d) == <<"obj", d>>

\* IRestoreOptions.args(obj): the data snapshot of object i.
ArgsOf(i) == <<"args", i>>
\* The data of a record left by an earlier session.
LegacyArgs == <<"args", 0>>

\* `${this.namespace}:${objName}`; objName 0 is '' (falsy), k > 0 is the
\* k-th name of object i.  The naming function returns a unique name, so
\* names of different objects differ.
MakeId(i, k) == <<Namespace, i, k>>

\* objName ? `${namespace}:${objName}` : ''
NewName(i, k) == IF k # 0 THEN MakeId(i, k) ELSE NoName

\* What IRestoreOptions.name(obj) can return for object i: '' (0) or one of
\* its names; for the objects beyond NNamed only ''.
Names(i) == IF i <= NNamed THEN 0..NNames ELSE {0}

AllIds == {MakeId(i, k) : i \in Items, k \in 1..NNames}

\* Ids of the records an earlier session may have left behind: the first
\* name of each object (a restored object is added again under its name).
LegacyIds == {MakeId(i, 1) : i \in Items}

\* The order in which IStateDB.list reports ids.
IdSeq == [n \in 1..(NItems * NNames) |->
            MakeId(((n - 1) \div NNames) + 1, ((n - 1) % NNames) + 1)]

VARIABLES
  variant,       \* "InstanceTracker" or "WidgetTracker"
  disposed,      \* obj.isDisposed
  injected,      \* Private.injectedProperty
  nameProp,      \* Private.nameProperty
  connected,     \* obj.disposed is connected to the tracker's handler
  entered,       \* how the object's accepted add was made: "no", "add", "inject"
  instances,     \* _instances / _tracker.widgets (membership)
  widgets,       \* WidgetTracker._widgets
  focusOrder,    \* FocusTracker: the tracked widgets that took focus, latest last
  current,       \* _current / _currentWidget
  hasRestored,   \* _hasRestored
  restoreOpts,   \* _restore: <<>> (null) or <<g>>, options with g gates
  gates,         \* promises of `when` still pending
  pc,            \* restore(): "idle", "waiting" (for the listing), "listed"
                 \* (for the gates), "replaying", "done", "failed"
  listed,        \* `saved`: the listing, a sequence of <<id, value>>
  slots,         \* the per-record promises of the second Promise.all
  execCalls,     \* the calls registry.execute has received
  restoredCount, \* times _restored.resolve() has run
  values,        \* what restore() returned
  store,         \* the state database: id -> value
  queue,         \* store calls issued and not yet completed, oldest first
  emits          \* signals emitted and calls rejected by the last step

vars == <<variant, disposed, injected, nameProp, connected, entered,
          instances, widgets, focusOrder, current, hasRestored, restoreOpts,
          gates, pc, listed, slots, execCalls, restoredCount, values, store,
          queue, emits>>

itemVars == <<disposed, injected, nameProp, connected, entered>>
trackerVars == <<instances, widgets, focusOrder, current>>
restoreVars == <<hasRestored, restoreOpts, gates, pc, listed, slots, execCalls,
                 restoredCount, values>>

\* ------------------------------------------------------------ helpers
Last(s) == s[Len(s)]

RECURSIVE RemoveFirstOf(_, _)
\* ArrayExt.removeFirstOf(array, value)
RemoveFirstOf(s, x) ==
  IF s = <<>> THEN <<>>
  ELSE IF Head(s) = x THEN Tail(s)
  ELSE <<Head(s)>> \o RemoveFirstOf(Tail(s), x)

\* FocusTracker.currentWidget: the widget that took focus last, or null.
FocusCurrent(order) == IF order = <<>> THEN Null ELSE Last(order)

\* A store call: what it does and who awaits it.
StoreCall(op, id, val, item, cont) ==
  [op |-> op, id |-> id, val |-> val, item |-> item, cont |-> cont]

\* The signals.
EvAdded(i) == <<"added", i>>
EvUpdated(i) == <<"updated", i>>
EvCurrentChanged(v) == <<"currentChanged", v>>
EvRestored == <<"restored", 0>>
EvAddRejected(i) == <<"addRejected", i>>
EvRestoreRejected == <<"restoreRejected", 0>>

Init ==
  /\ variant \in {"InstanceTracker", "WidgetTracker"}
  /\ disposed = [i \in Items |-> FALSE]
  /\ injected = [i \in Items |-> FALSE]
  /\ nameProp = [i \in Items |-> NoName]
  /\ connected = [i \in Items |-> FALSE]
  /\ entered = [i \in Items |-> "no"]
  /\ instances = {}
  /\ widgets = <<>>
  /\ focusOrder = <<>>
  /\ current = Null
  /\ hasRestored = FALSE
  /\ restoreOpts = <<>>
  /\ gates = 0
  /\ pc = "idle"
  /\ listed = <<>>
  /\ slots = <<>>
  /\ execCalls = <<>>
  /\ restoredCount = 0
  /\ values = <<>>
  /\ store \in [AllIds -> {Absent, WithoutData, WithData(LegacyArgs)}]
  /\ \A id \in AllIds \ LegacyIds : store[id] = Absent
  /\ queue = <<>>
  /\ emits = <<>>

\* A setter that emits without assigning the field.
SetCurrentNoAssign(cur, obj) ==
  IF cur = obj THEN <<cur, <<>>>> ELSE <<cur, <<EvCurrentChanged(obj)>>>>

\* ------------------------------------------------- the `current` setter
\* set current(obj): a no-op on the same reference, else the field is set
\* and currentChanged is emitted.  The result is <<new current, emissions>>.
SetCurrent(cur, obj) ==
  IF cur = obj THEN <<cur, <<>>>> ELSE <<obj, <<EvCurrentChanged(obj)>>>>

\* ------------------------------------------------------------- add
\* InstanceTracker.add(obj), with `flags` the injected property as it is
\* when add runs, `mode` how the caller came here ("add" or "inject") and
\* k what this._restore.name(obj) returns if it is asked (0: '').
InstanceAdd(i, k, flags, mode) ==
  /\ variant = "InstanceTracker"
  /\ injected' = flags
  /\ IF disposed[i] \/ i \in instances
     THEN \* throw new Error(warning)
          /\ emits' = <<EvAddRejected(i)>>
          /\ UNCHANGED <<instances, connected, entered, nameProp, queue, current>>
     ELSE /\ instances' = instances \cup {i}
          /\ entered' = [entered EXCEPT ![i] = mode]
          /\ IF flags[i]
             THEN \* return before the disposal handler is connected
                  /\ emits' = <<>>
                  /\ UNCHANGED <<connected, nameProp, queue, current>>
             ELSE /\ connected' = [connected EXCEPT ![i] = TRUE]
                  /\ IF restoreOpts # <<>> /\ k # 0
                     THEN \* await state.save(name, { data }): the rest of add
                          \* runs when the store answers
                          /\ nameProp' = [nameProp EXCEPT ![i] = MakeId(i, k)]
                          /\ queue' = Append(queue,
                               StoreCall("save", MakeId(i, k),
                                         WithData(ArgsOf(i)), i, <<"add", i>>))
                          /\ emits' = <<>>
                          /\ UNCHANGED current
                     ELSE /\ current' = IF current = Null THEN SetCurrent(current, i)[1]
                                        ELSE current
                          /\ emits' = (IF current = Null THEN SetCurrent(current, i)[2]
                                       ELSE <<>>) \o <<EvAdded(i)>>
                          /\ UNCHANGED <<nameProp, queue>>
  /\ UNCHANGED <<variant, disposed, widgets, focusOrder, store>>
  /\ UNCHANGED restoreVars

\* A focus handler without the test of the unchanged widget.
OnCurrentChangedUnguarded(cur, newValue) ==
  <<newValue, <<EvCurrentChanged(newValue)>>>>

\* WidgetTracker._onCurrentChanged(sender, args): <<new current, emissions>>.
OnCurrentChanged(cur, newValue) ==
  IF newValue = cur THEN <<cur, <<>>>>
  ELSE <<newValue, <<EvCurrentChanged(newValue)>>>>

\* WidgetTracker.add(widget); `focused` says whether the widget holds the
\* focus when FocusTracker.add looks at it.
WidgetAdd(i, k, flags, mode, focused) ==
  /\ variant = "WidgetTracker"
  /\ injected' = flags
  /\ IF disposed[i] \/ i \in instances
     THEN \* return Promise.reject(warning)
          /\ emits' = <<EvAddRejected(i)>>
          /\ UNCHANGED <<instances, connected, entered, nameProp, queue, current,
                         widgets, focusOrder>>
     ELSE LET \* this._tracker.add(widget)
              order1 == IF focused THEN Append(focusOrder, i) ELSE focusOrder
              fc == IF focused THEN OnCurrentChanged(current, i) ELSE <<current, <<>>>>
              named == restoreOpts # <<>> /\ k # 0
          IN
          /\ instances' = instances \cup {i}
          /\ focusOrder' = order1
          /\ widgets' = Append(widgets, i)
          /\ entered' = [entered EXCEPT ![i] = mode]
          /\ IF flags[i]
             THEN /\ current' = fc[1]
                  /\ emits' = fc[2]
                  /\ UNCHANGED <<connected, nameProp, queue>>
             ELSE /\ connected' = [connected EXCEPT ![i] = TRUE]
                  /\ nameProp' = IF named
                                 THEN [nameProp EXCEPT ![i] = MakeId(i, k)]
                                 ELSE nameProp
                  /\ queue' = IF named
                              THEN Append(queue,
                                     StoreCall("save", MakeId(i, k),
                                               WithData(ArgsOf(i)), i, <<"none", i>>))
                              ELSE queue
                  \* if (!this._tracker.currentWidget)
                  /\ current' = IF FocusCurrent(order1) = Null THEN i ELSE fc[1]
                  /\ emits' = fc[2]
                              \o (IF FocusCurrent(order1) = Null
                                  THEN <<EvCurrentChanged(i)>> ELSE <<>>)
                              \o <<EvAdded(i)>>
  /\ UNCHANGED <<variant, disposed, store>>
  /\ UNCHANGED restoreVars

\* A caller issues no further store-writing call while MaxQueue are pending.
Room == Len(queue) < MaxQueue

\* An add that tests for a disposed object only after the insertion.
AddLateCheck(i, k) ==
  /\ Room
  /\ IF disposed[i] /\ i \notin instances
     THEN /\ instances' = instances \cup {i}
          /\ emits' = <<EvAddRejected(i)>>
          /\ UNCHANGED <<variant, disposed, injected, nameProp, connected, entered,
                         widgets, focusOrder, current, store, queue>>
          /\ UNCHANGED restoreVars
     ELSE \/ InstanceAdd(i, k, injected, "add")
          \/ \E focused \in BOOLEAN : WidgetAdd(i, k, injected, "add", focused)

Add(i, k) ==
  /\ Room
  /\ \/ InstanceAdd(i, k, injected, "add")
     \/ \E focused \in BOOLEAN : WidgetAdd(i, k, injected, "add", focused)

\* An inject that goes through add without setting the injected flag.
InjectWithoutFlag(i) ==
  /\ Room
  /\ \/ InstanceAdd(i, 0, injected, "inject")
     \/ \E focused \in BOOLEAN : WidgetAdd(i, 0, injected, "inject", focused)

\* inject(obj): Private.injectedProperty.set(obj, true), then add(obj).
Inject(i) ==
  /\ Room
  /\ \/ InstanceAdd(i, 0, [injected EXCEPT ![i] = TRUE], "inject")
     \/ \E focused \in BOOLEAN :
          WidgetAdd(i, 0, [injected EXCEPT ![i] = TRUE], "inject", focused)

\* --------------------------------------------------------- disposal
\* The store call that ends a disposal handler: void state.remove(name).
DisposalRemove(i) ==
  IF restoreOpts # <<>> /\ nameProp[i] # NoName
  THEN <<StoreCall("remove", nameProp[i], Absent, i, <<"none", i>>)>>
  ELSE <<>>

\* InstanceTracker._onInstanceDisposed(obj), run by obj.disposed.
OnInstanceDisposed(i) ==
  /\ instances' = instances \ {i}
  /\ IF injected[i]
     THEN /\ emits' = <<>>
          /\ UNCHANGED <<current, queue>>
     ELSE /\ current' = IF i = current THEN Null ELSE current
          /\ emits' = IF i = current THEN <<EvCurrentChanged(Null)>> ELSE <<>>
          /\ queue' = queue \o DisposalRemove(i)
  /\ UNCHANGED <<widgets, focusOrder>>

\* The object is disposed: isDisposed is set, then the handlers connected
\* to obj.disposed run in the order in which they were connected.
InstanceDispose(i) ==
  /\ variant = "InstanceTracker"
  /\ IF connected[i]
     THEN OnInstanceDisposed(i)
     ELSE /\ emits' = <<>>
          /\ UNCHANGED <<instances, widgets, focusOrder, current, queue>>

\* FocusTracker's own handler (connected first, by this._tracker.add), then
\* WidgetTracker._onWidgetDisposed(widget).
WidgetDispose(i) ==
  /\ variant = "WidgetTracker"
  /\ LET tracked == i \in instances
         order1 == IF tracked THEN RemoveFirstOf(focusOrder, i) ELSE focusOrder
         \* the focus tracker gives up its current widget and says so
         fc == IF tracked /\ FocusCurrent(focusOrder) = i
               THEN OnCurrentChanged(current, FocusCurrent(order1))
               ELSE <<current, <<>>>>
         handled == connected[i] /\ ~injected[i]
         widgets1 == IF handled THEN RemoveFirstOf(widgets, i) ELSE widgets
         \* this._tracker.currentWidget || this._widgets[length - 1] || null
         fallback == IF FocusCurrent(order1) # Null THEN FocusCurrent(order1)
                     ELSE IF widgets1 # <<>> THEN Last(widgets1)
                     ELSE Null
         wasCurrent == handled /\ i = fc[1]
     IN /\ instances' = instances \ {i}
        /\ focusOrder' = order1
        /\ widgets' = widgets1
        /\ current' = IF wasCurrent THEN fallback ELSE fc[1]
        /\ emits' = fc[2] \o (IF wasCurrent THEN <<EvCurrentChanged(fallback)>>
                              ELSE <<>>)
        /\ queue' = IF handled THEN queue \o DisposalRemove(i) ELSE queue

Dispose(i) ==
  /\ ~disposed[i]
  /\ disposed' = [disposed EXCEPT ![i] = TRUE]
  /\ \/ InstanceDispose(i)
     \/ WidgetDispose(i)
  /\ UNCHANGED <<variant, injected, nameProp, connected, entered, store>>
  /\ UNCHANGED restoreVars

\* ------------------------------------------------------------ focus
\* A tracked widget takes the focus: the focus tracker makes it its current
\* widget and emits currentChanged, which runs _onCurrentChanged.
Focus(i) ==
  /\ variant = "WidgetTracker"
  /\ i \in instances
  /\ FocusCurrent(focusOrder) # i
  /\ focusOrder' = Append(RemoveFirstOf(focusOrder, i), i)
  /\ current' = OnCurrentChanged(current, i)[1]
  /\ emits' = OnCurrentChanged(current, i)[2]
  /\ UNCHANGED <<variant, instances, widgets, store, queue>>
  /\ UNCHANGED itemVars
  /\ UNCHANGED restoreVars

\* ------------------------------------------------------------- save
\* save(obj), the same code in both classes, up to its first await; k is
\* what this._restore.name(obj) returns if it is asked (0: '') and `skip`
\* the test of the early return.
SaveUnless(i, k, skip) ==
  /\ Room
  /\ LET oldName == nameProp[i]
         newName == NewName(i, k)
     IN IF skip
        THEN UNCHANGED <<nameProp, queue>>
        ELSE IF oldName # NoName /\ oldName # newName
        THEN \* await state.remove(oldName)
             /\ queue' = Append(queue,
                  StoreCall("remove", oldName, Absent, i,
                            <<"saveRemove", i, oldName, newName>>))
             /\ UNCHANGED nameProp
        ELSE /\ nameProp' = [nameProp EXCEPT ![i] = newName]
             /\ queue' = IF newName # NoName
                         THEN Append(queue,
                                StoreCall("save", newName, WithData(ArgsOf(i)), i,
                                          <<"saveWrite", i, oldName, newName>>))
                         ELSE queue
  /\ emits' = <<>>
  /\ UNCHANGED <<variant, disposed, injected, connected, entered, store>>
  /\ UNCHANGED trackerVars
  /\ UNCHANGED restoreVars

\* A save that forgets the injected flag.
SaveIgnoringInjected(i, k) ==
  SaveUnless(i, k, restoreOpts = <<>> \/ i \notin instances)

\* if (!this._restore || !this.has(obj) || injected) { return; }
Save(i, k) ==
  SaveUnless(i, k, restoreOpts = <<>> \/ i \notin instances \/ injected[i])

\* ---------------------------------------------------------- restore
\* IStateDB.list(namespace): the ids and values of the records present.
Listing(st) ==
  LET ids == SelectSeq(IdSeq, LAMBDA id : st[id] # Absent)
  IN [n \in 1..Len(ids) |-> <<ids[n], st[ids[n]]>>]

\* value && (value as any).data
ArgsFromValue(value) ==
  IF value = Absent THEN Undefined
  ELSE IF Len(value) < 2 THEN Undefined
  ELSE value[2]

\* What the command registry returns for a command it runs successfully.
ExecResult(command, args) == <<"result", command, args>>

\* The promises a record's map callback can leave in the second Promise.all.
Executing(args) == <<"executing", args>>
Removing == <<"removing">>
Fulfilled(v) == <<"fulfilled", v>>
Rejected(reason) == <<"rejected", reason>>

\* restore(options), up to its first await; g is the number of promises
\* given as options.when and `refused` the test of the throw.
RestoreCallUnless(g, refused) ==
  /\ IF refused
     THEN \* throw new Error('Instance tracker has already restored')
          /\ emits' = <<EvRestoreRejected>>
          /\ UNCHANGED <<hasRestored, queue, restoreOpts, gates, pc>>
     ELSE /\ hasRestored' = TRUE
          /\ queue' = Append(queue,
               StoreCall("list", NoName, Absent, Null, <<"list", Null>>))
          /\ restoreOpts' = <<g>>
          /\ gates' = g
          /\ pc' = "waiting"
          /\ emits' = <<>>
  /\ UNCHANGED <<listed, slots, execCalls, restoredCount, values, store, variant>>
  /\ UNCHANGED itemVars
  /\ UNCHANGED trackerVars

\* A restore that refuses only while an earlier call is in progress.
RestoreCallAgain(g) ==
  RestoreCallUnless(g, pc \in {"waiting", "listed", "replaying"})

\* if (this._hasRestored) { throw ... }
RestoreCall(g) == RestoreCallUnless(g, hasRestored)

\* One of the promises of options.when resolves.
GateResolve ==
  /\ gates > 0
  /\ gates' = gates - 1
  /\ emits' = <<>>
  /\ UNCHANGED <<hasRestored, restoreOpts, pc, listed, slots, execCalls,
                 restoredCount, values, store, queue, variant>>
  /\ UNCHANGED itemVars
  /\ UNCHANGED trackerVars

\* The callback of saved.ids.map for the record at position n, with `args`
\* what it takes for the record's arguments.
ReplayWith(n, args) ==
  LET id == listed[n][1]
  IN IF args = Undefined
     THEN [slot |-> Removing,
           calls |-> <<StoreCall("remove", id, Absent, Null, <<"cleanup", n>>)>>,
           execs |-> <<>>]
     ELSE [slot |-> Executing(args),
           calls |-> <<>>,
           execs |-> <<<<Command, args, id>>>>]

\* A callback that takes the record's value for its arguments.
ReplayRecordByValue(n) ==
  ReplayWith(n, IF listed[n][2] = Absent THEN Undefined ELSE listed[n][2])

\* const args = value && (value as any).data;
ReplayRecord(n) == ReplayWith(n, ArgsFromValue(listed[n][2]))

RECURSIVE Replay(_)
\* The calls of the whole map, in the order of the listing (positions 1..n).
Replay(n) ==
  IF n = 0 THEN [calls |-> <<>>, execs |-> <<>>]
  ELSE [calls |-> Replay(n - 1).calls \o ReplayRecord(n).calls,
        execs |-> Replay(n - 1).execs \o ReplayRecord(n).execs]

\* restore() resumes after `await Promise.all(promises)`: the listing is in
\* and every gate has resolved.
RestoreReplayWhen(ready) ==
  /\ pc = "listed"
  /\ ready
  /\ slots' = [n \in 1..Len(listed) |-> ReplayRecord(n).slot]
  /\ queue' = queue \o Replay(Len(listed)).calls
  /\ execCalls' = execCalls \o Replay(Len(listed)).execs
  /\ pc' = "replaying"
  /\ emits' = <<>>
  /\ UNCHANGED <<hasRestored, restoreOpts, gates, listed, restoredCount, values,
                 store, variant>>
  /\ UNCHANGED itemVars
  /\ UNCHANGED trackerVars

\* A restore that does not wait for the gates.
RestoreReplayUngated == RestoreReplayWhen(TRUE)

\* const [saved] = await Promise.all(promises);
RestoreReplay == RestoreReplayWhen(gates = 0)

\* registry.execute(command, args) settles for the record at position n;
\* a rejection runs .catch(() => state.remove(id)); `kept` says whether the
\* record of a command that succeeded is left alone.
ExecSettleWith(n, ok, kept) ==
  /\ n \in 1..Len(slots)
  /\ slots[n][1] = "executing"
  /\ IF ok
     THEN /\ slots' = [slots EXCEPT ![n] = Fulfilled(ExecResult(Command, slots[n][2]))]
          /\ queue' = IF kept THEN queue
                      ELSE Append(queue,
                             StoreCall("remove", listed[n][1], Absent, Null,
                                       <<"none", Null>>))
     ELSE /\ slots' = [slots EXCEPT ![n] = Removing]
          /\ queue' = Append(queue,
               StoreCall("remove", listed[n][1], Absent, Null, <<"cleanup", n>>))
  /\ emits' = <<>>
  /\ UNCHANGED <<hasRestored, restoreOpts, gates, pc, listed, execCalls,
                 restoredCount, values, store, variant>>
  /\ UNCHANGED itemVars
  /\ UNCHANGED trackerVars

\* A replay that deletes the record whatever the command's outcome.
ExecSettleAlwaysRemove(n, ok) == ExecSettleWith(n, ok, FALSE)

\* registry.execute(command, args).catch(() => state.remove(id))
ExecSettle(n, ok) == ExecSettleWith(n, ok, TRUE)

\* restore() resumes after the second Promise.all: every record's promise
\* is fulfilled.
RestoreFinish ==
  /\ pc = "replaying"
  /\ \A n \in 1..Len(slots) : slots[n][1] = "fulfilled"
  /\ restoredCount' = restoredCount + 1
  /\ values' = [n \in 1..Len(slots) |-> slots[n][2]]
  /\ pc' = "done"
  /\ emits' = <<EvRestored>>
  /\ UNCHANGED <<hasRestored, restoreOpts, gates, listed, slots, execCalls,
                 store, queue, variant>>
  /\ UNCHANGED itemVars
  /\ UNCHANGED trackerVars

\* ------------------------------------------------------------ store
\* What a completed call leaves in the store.
Apply(st, c) ==
  IF c.op = "save" THEN [st EXCEPT ![c.id] = c.val]
  ELSE IF c.op = "remove" THEN [st EXCEPT ![c.id] = Absent]
  ELSE st

\* InstanceTracker.add, after `await state.save(name, { data })`.
AddResume(i, ok) ==
  /\ IF ok
     THEN /\ current' = IF current = Null THEN SetCurrent(current, i)[1] ELSE current
          /\ emits' = (IF current = Null THEN SetCurrent(current, i)[2] ELSE <<>>)
                      \o <<EvAdded(i)>>
     ELSE /\ emits' = <<<<"addFailed", i>>>>
          /\ UNCHANGED current
  /\ queue' = Tail(queue)
  /\ UNCHANGED <<nameProp, pc, listed, slots>>

\* save, after `await state.remove(oldName)`.
SaveAfterRemove(i, oldName, newName, ok) ==
  /\ IF ok
     THEN /\ nameProp' = [nameProp EXCEPT ![i] = newName]
          /\ queue' = IF newName # NoName
                      THEN Append(Tail(queue),
                             StoreCall("save", newName, WithData(ArgsOf(i)), i,
                                       <<"saveWrite", i, oldName, newName>>))
                      ELSE Tail(queue)
          /\ emits' = IF newName = NoName /\ oldName # newName
                      THEN <<EvUpdated(i)>> ELSE <<>>
     ELSE /\ queue' = Tail(queue)
          /\ emits' = <<<<"saveFailed", i>>>>
          /\ UNCHANGED nameProp
  /\ UNCHANGED <<current, pc, listed, slots>>

\* A save that emits `updated` whether or not the name has changed.
SaveAfterWriteAlways(i, oldName, newName, ok) ==
  /\ emits' = IF ~ok THEN <<<<"saveFailed", i>>>> ELSE <<EvUpdated(i)>>
  /\ queue' = Tail(queue)
  /\ UNCHANGED <<nameProp, current, pc, listed, slots>>

\* save, after `await state.save(newName, { data })`.
SaveAfterWrite(i, oldName, newName, ok) ==
  /\ emits' = IF ~ok THEN <<<<"saveFailed", i>>>>
              ELSE IF oldName # newName THEN <<EvUpdated(i)>>
              ELSE <<>>
  /\ queue' = Tail(queue)
  /\ UNCHANGED <<nameProp, current, pc, listed, slots>>

\* restore: state.list(namespace) settles inside the first Promise.all.
ListSettled(st, ok) ==
  /\ pc' = IF pc # "waiting" THEN pc ELSE IF ok THEN "listed" ELSE "failed"
  /\ listed' = IF pc = "waiting" /\ ok THEN Listing(st) ELSE listed
  /\ queue' = Tail(queue)
  /\ emits' = <<>>
  /\ UNCHANGED <<nameProp, current, slots>>

\* restore: the state.remove(id) of the record at position n settles inside
\* the second Promise.all, which rejects as soon as one promise rejects.
CleanupSettled(n, ok) ==
  /\ slots' = [slots EXCEPT ![n] = IF ok THEN Fulfilled(Undefined)
                                 ELSE Rejected("store")]
  /\ pc' = IF ~ok /\ pc = "replaying" THEN "failed" ELSE pc
  /\ queue' = Tail(queue)
  /\ emits' = <<>>
  /\ UNCHANGED <<nameProp, current, listed>>

\* A call nobody in the tracker awaits (void state.remove(name) of a
\* disposal, the promise WidgetTracker.add hands to its caller).
Unawaited ==
  /\ queue' = Tail(queue)
  /\ emits' = <<>>
  /\ UNCHANGED <<nameProp, current, pc, listed, slots>>

\* The store completes its oldest pending call, successfully (ok) or not,
\* and the code awaiting it runs to its next await.
Complete(ok) ==
  /\ queue # <<>>
  /\ LET c == Head(queue)
         k == c.cont[1]
         st == IF ok THEN Apply(store, c) ELSE store
     IN /\ store' = st
        /\ IF k = "add" THEN AddResume(c.cont[2], ok)
           ELSE IF k = "saveRemove"
           THEN SaveAfterRemove(c.cont[2], c.cont[3], c.cont[4], ok)
           ELSE IF k = "saveWrite"
           THEN SaveAfterWrite(c.cont[2], c.cont[3], c.cont[4], ok)
           ELSE IF k = "list" THEN ListSettled(st, ok)
           ELSE IF k = "cleanup" THEN CleanupSettled(c.cont[2], ok)
           ELSE Unawaited
  /\ UNCHANGED <<variant, disposed, injected, connected, entered,
                 instances, widgets, focusOrder, hasRestored, restoreOpts, gates,
                 execCalls, restoredCount, values>>

StoreDone == Complete(TRUE)

StoreFail == Complete(FALSE)

\* One of the promises of options.when rejects: the first Promise.all
\* rejects and restore() with it.
GateReject ==
  /\ gates > 0
  /\ gates' = gates - 1
  /\ pc' = IF pc \in {"waiting", "listed"} THEN "failed" ELSE pc
  /\ emits' = <<>>
  /\ UNCHANGED <<hasRestored, restoreOpts, listed, slots, execCalls,
                 restoredCount, values, store, queue, variant>>
  /\ UNCHANGED itemVars
  /\ UNCHANGED trackerVars

\* ------------------------------------------------------ specifications
\* No earlier session has left records.
InitEmpty == Init /\ \A id \in AllIds : store[id] = Absent

\* The objects' side: every call on every object, a restore() without
\* gates, a store that answers.
Next ==
  \/ \E i \in Items : \E k \in Names(i) : Add(i, k)
  \/ \E i \in Items : Inject(i)
  \/ \E i \in Items : Dispose(i)
  \/ \E i \in Items : Focus(i)
  \/ \E i \in Items : \E k \in Names(i) : Save(i, k)
  \/ RestoreCall(0)
  \/ RestoreReplay
  \/ RestoreFinish
  \/ StoreDone

Spec == InitEmpty /\ [][Next]_vars

\* The same, with a store that may fail a call.
NextF == Next \/ StoreFail

SpecF == InitEmpty /\ [][NextF]_vars

\* The restoration's side: records of an earlier session, gates, the
\* command registry, and the first object's calls going on meanwhile.
NextR ==
  \/ \E k \in Names(1) : Add(1, k)
  \/ Dispose(1)
  \/ \E k \in Names(1) : Save(1, k)
  \/ \E g \in 0..MaxGates : RestoreCall(g)
  \/ GateResolve
  \/ RestoreReplay
  \/ \E n \in 1..Len(slots), ok \in BOOLEAN : ExecSettle(n, ok)
  \/ RestoreFinish
  \/ StoreDone

SpecR == Init /\ [][NextR]_vars

\* The same, with a store and gates that may fail.
NextRF == NextR \/ StoreFail \/ GateReject

SpecRF == Init /\ [][NextRF]_vars

\* The scheduling the event loop gives: a settled promise's continuation
\* runs, and (as assumed of the collaborators) the store, the gates and the
\* command registry settle every call, one way or the other.
Fairness ==
  /\ WF_vars(StoreDone \/ StoreFail)
  /\ WF_vars(GateResolve \/ GateReject)
  /\ WF_vars(RestoreReplay)
  /\ WF_vars(\E n \in 1..Len(slots), ok \in BOOLEAN : ExecSettle(n, ok))
  /\ WF_vars(RestoreFinish)

\* The store rejects a removal that restore issued.
CleanupFail ==
  /\ queue # <<>>
  /\ Head(queue).cont[1] = "cleanup"
  /\ StoreFail

\* The restoration's side, the listing and the gates succeeding, the command
\* registry and the removals restore issues settling either way.
NextRC == NextR \/ CleanupFail

SpecRCL == Init /\ [][NextRC]_vars /\ Fairness

\* inject(obj) called on a second tracker: Private.injectedProperty belongs
\* to the object, not to a tracker, so the flag is set for every tracker that
\* holds the object; the second tracker's add(obj) then changes that
\* tracker's own fields only, which nothing here reads.
InjectElsewhere(i) ==
  /\ ~disposed[i]
  /\ injected' = [injected EXCEPT ![i] = TRUE]
  /\ emits' = <<>>
  /\ UNCHANGED <<variant, disposed, nameProp, connected, entered, store, queue>>
  /\ UNCHANGED trackerVars
  /\ UNCHANGED restoreVars

\* A tracker that handles the restoration of its objects and never has
\* inject called on it, while its objects are injected into a second one.
NextT ==
  \/ \E i \in Items : \E k \in Names(i) : Add(i, k)
  \/ \E i \in Items : Dispose(i)
  \/ \E i \in Items : Focus(i)
  \/ \E i \in Items : \E k \in Names(i) : Save(i, k)
  \/ \E i \in Items : InjectElsewhere(i)
  \/ RestoreCall(0)
  \/ RestoreReplay
  \/ RestoreFinish
  \/ StoreDone

SpecT == InitEmpty /\ [][NextT]_vars

\* A client assigns tracker.current = obj (InstanceTracker only: the
\* WidgetTracker has no setter); the setter accepts any object of type T.
CurrentSet(v) ==
  /\ variant = "InstanceTracker"
  /\ current' = SetCurrent(current, v)[1]
  /\ emits' = SetCurrent(current, v)[2]
  /\ UNCHANGED <<variant, instances, widgets, focusOrder, store, queue>>
  /\ UNCHANGED itemVars
  /\ UNCHANGED restoreVars

NextS == NextF \/ \E v \in Items : CurrentSet(v)

SpecS == InitEmpty /\ [][NextS]_vars

\* ------------------------------------------------------------ claims
\* The records in the store that hold the data of object i.
RecordsOf(i) == {id \in AllIds : store[id] = WithData(ArgsOf(i))}

\* No store call is in flight (and so no add or save is suspended).
Quiescent == queue = <<>>

\* C1: in every reachable state of either tracker class, `current` is null
\* or an object that the tracker has and that is not disposed.
C1_CurrentIsMember ==
  current = Null \/ (current \in instances /\ ~disposed[current])

\* C2: whenever no store call is in flight, every tracked, non-injected
\* object that was added and for which the tracker has recorded a non-empty
\* name has exactly one record in the store, the one under that name.
C2_ExactlyOneRecord ==
  Quiescent =>
    \A i \in Items :
      (entered[i] = "add" /\ ~injected[i] /\ i \in instances
         /\ nameProp[i] # NoName)
        => RecordsOf(i) = {nameProp[i]}

\* C3: once a non-injected object with a recorded non-empty name is disposed
\* and every store call in flight has completed, the store holds no record
\* written for it.
C3_DisposalRemovesRecord ==
  Quiescent =>
    \A i \in Items :
      (disposed[i] /\ ~injected[i] /\ nameProp[i] # NoName)
        => RecordsOf(i) = {}

\* C4: save removes the old record before it writes the new one, so that an
\* object never has two live records, whatever save calls overlap.
C4_NeverTwoRecords ==
  \A i \in Items : Cardinality(RecordsOf(i)) <= 1

\* C5: an object brought in by inject never causes a store call (no save on
\* add or save, no remove on disposal), never has a record and never has
\* `updated` emitted for it.
C5_InjectedLeavesNoTrace ==
  \A i \in Items :
    entered[i] = "inject" =>
      /\ \A m \in DOMAIN queue : queue[m].item # i
      /\ \A m \in DOMAIN emits : emits[m] # EvUpdated(i)
      /\ RecordsOf(i) = {}

\* An injected object has been disposed while a restore configuration is
\* installed and another object is still tracked.
C5_Witness ==
  \E i \in Items :
    /\ entered[i] = "inject"
    /\ disposed[i]
    /\ restoreOpts # <<>>
    /\ \E j \in Items : j # i /\ j \in instances /\ nameProp[j] # NoName

\* The list calls among the pending store calls.
ListCalls(q) == {m \in DOMAIN q : q[m].op = "list"}

\* C6: once restore() has been called, no later call is accepted (no new
\* configuration, no new listing, no new wait), whether the first call is
\* in progress, has finished or has failed; and a rejected call changes
\* nothing at all.
C6_RestoreOnlyOnce ==
  [][hasRestored =>
       /\ hasRestored'
       /\ restoreOpts' = restoreOpts
       /\ Cardinality(ListCalls(queue')) <= Cardinality(ListCalls(queue))
       /\ gates' <= gates
       /\ (pc' = "waiting" => pc = "waiting")
       /\ (emits' = <<EvRestoreRejected>> =>
             UNCHANGED <<variant, disposed, injected, nameProp, connected, entered,
                         instances, widgets, focusOrder, current, hasRestored,
                         restoreOpts, gates, pc, listed, slots, execCalls,
                         restoredCount, values, store, queue>>)]_vars

\* A second restore() has just been rejected after the first one failed.
C6_Witness == emits = <<EvRestoreRejected>> /\ pc = "failed"

\* A listed value that carries no data.
DataAbsent(v) == Len(v) < 2

\* The removal that restore issued for the record at position n is pending.
CleanupQueued(n) ==
  \E m \in DOMAIN queue :
    /\ queue[m].op = "remove"
    /\ queue[m].id = listed[n][1]
    /\ queue[m].item = Null

\* The command registry has been called for record id.
ExecCalledFor(id) == \E m \in DOMAIN execCalls : execCalls[m][3] = id

\* restore() has gone past its first await.
Replayed == pc \in {"replaying", "done"} \/ slots # <<>>

\* C7: for every listed record without data, restore issues the removal of
\* the record, the record is gone once the removal has completed, and the
\* command registry is never called for it.
C7_NoDataRecordsRemoved ==
  /\ Replayed => Len(slots) = Len(listed)
  /\ \A n \in DOMAIN slots :
       DataAbsent(listed[n][2]) =>
         /\ ~ExecCalledFor(listed[n][1])
         /\ slots[n][1] \in {"removing", "fulfilled", "rejected"}
         /\ slots[n][1] = "removing" => CleanupQueued(n)
         /\ slots[n][1] = "fulfilled" =>
              /\ slots[n][2] = Undefined
              /\ store[listed[n][1]] # listed[n][2]

\* restore() has returned after removing a record without data.
C7_Witness ==
  /\ pc = "done"
  /\ \E n \in DOMAIN slots :
       DataAbsent(listed[n][2]) /\ slots[n] = Fulfilled(Undefined)

\* C8: restore() does not fail because of what happens while one record is
\* handled, be it the command's rejection or the removal that cleans up
\* after it: a record with data whose handling ended in a rejection does
\* not make restore() reject.
C8_NoRecordFailurePropagates ==
  \A n \in DOMAIN slots :
    (~DataAbsent(listed[n][2]) /\ slots[n][1] = "rejected") => pc # "failed"

RECURSIVE ExpectedCalls(_)
\* One call (command, data, id) for each of the first n listed records that
\* carries data, in the order of the listing.
ExpectedCalls(n) ==
  IF n = 0 THEN <<>>
  ELSE IF DataAbsent(listed[n][2]) THEN ExpectedCalls(n - 1)
  ELSE Append(ExpectedCalls(n - 1), <<Command, listed[n][2][2], listed[n][1]>>)

\* The object whose name makes record id.
OwnerOf(id) == id[2]

\* C9: the command registry is called exactly once, with the command and the
\* record's data, for each listed record that carries data, and for nothing
\* else; a record whose command succeeded has no removal issued by restore
\* and stays in the store as listed (unless its own object has been added
\* under that name since); its outcome is the command's return value.
C9_ExecutedOncePerRecord ==
  /\ execCalls = IF Replayed THEN ExpectedCalls(Len(listed)) ELSE <<>>
  /\ \A n \in DOMAIN slots :
       (slots[n][1] = "fulfilled" /\ slots[n][2] # Undefined) =>
         /\ ~DataAbsent(listed[n][2])
         /\ slots[n][2] = ExecResult(Command, listed[n][2][2])
         /\ ~CleanupQueued(n)
         /\ entered[OwnerOf(listed[n][1])] = "no" =>
              store[listed[n][1]] = listed[n][2]
         /\ pc = "done" => values[n] = ExecResult(Command, listed[n][2][2])

\* restore() has returned the command's result for a record that is still in
\* the store.
C9_Witness ==
  /\ pc = "done"
  /\ \E n \in DOMAIN slots :
       /\ values[n] = ExecResult(Command, LegacyArgs)
       /\ store[listed[n][1]] = listed[n][2]

\* C10: while a gate is pending, and before the listing is in, restore has
\* called the command registry for nothing and has issued no removal.
C10_NothingBeforeGates ==
  (gates > 0 \/ pc \in {"idle", "waiting", "listed"}) =>
    /\ execCalls = <<>>
    /\ slots = <<>>
    /\ \A m \in DOMAIN queue : queue[m].cont[1] # "cleanup"
    /\ pc \notin {"replaying", "done"}

\* The listing is in, with a record in it, and a gate is still pending.
C10_Witness == pc = "listed" /\ gates > 0 /\ listed # <<>>

\* C11: the `restored` promise is resolved exactly once: never without a
\* restore() call, never before every listed record's promise has settled,
\* never a second time; and once restore() has been called it is eventually
\* resolved, given that the store, the gates and the command registry settle
\* every call.
C11_RestoredResolvesOnce ==
  /\ [](restoredCount <= 1)
  /\ [](restoredCount > 0 =>
          /\ hasRestored
          /\ Len(slots) = Len(listed)
          /\ \A n \in DOMAIN slots : slots[n][1] = "fulfilled")
  /\ (hasRestored ~> restoredCount = 1)

\* Everything but the signals of the last step.
Observable ==
  <<variant, disposed, injected, nameProp, connected, entered, instances,
    widgets, focusOrder, current, hasRestored, restoreOpts, gates, pc, listed,
    slots, execCalls, restoredCount, values, store, queue>>

\* size
Size == Cardinality(instances)

\* C12: add(obj) is rejected when obj is disposed and when obj is already
\* tracked, and a rejected add changes nothing (size, membership, current,
\* the store, the pending store calls; no signal is emitted); an accepted
\* add increases size by exactly one.
C12_RejectedAddChangesNothing ==
  [][\A i \in Items : \A k \in Names(i) :
       Add(i, k) =>
         IF disposed[i] \/ i \in instances
         THEN /\ emits' = <<EvAddRejected(i)>>
              /\ UNCHANGED Observable
         ELSE /\ \A m \in DOMAIN emits' : emits'[m] # EvAddRejected(i)
              /\ instances' = instances \cup {i}
              /\ Size' = Size + 1]_vars

\* A second add of a tracked object has just been rejected while another
\* object is current, and an add of a disposed object is rejected too.
C12_Witness ==
  \E i \in Items :
    /\ emits = <<EvAddRejected(i)>>
    /\ ~injected[i]
    /\ i \in instances
    /\ Size = 1
    /\ \E j \in Items : j # i /\ disposed[j]

\* add(obj) is called on an object that is neither disposed nor tracked.
Accepted(i) == ~disposed[i] /\ i \notin instances

\* C13: when add(obj) returns its promise for a non-injected object, with a
\* restore configuration installed and a non-empty name, the tracker has the
\* object and, if current was null, current is the object: before the store
\* write has completed.
C13_AddVisibleAtReturn ==
  [][\A i \in Items : \A k \in Names(i) :
       (Add(i, k) /\ Accepted(i) /\ ~injected[i] /\ restoreOpts # <<>> /\ k # 0)
         => /\ i \in instances'
            /\ \E m \in DOMAIN queue' : queue'[m].op = "save" /\ queue'[m].item = i
            /\ current = Null => current' = i]_vars

\* The step is an accepted add(obj) or inject(obj) of object i.
AddedNow(i) ==
  /\ Accepted(i)
  /\ (\E k \in Names(i) : Add(i, k)) \/ Inject(i)

\* The step resumes the InstanceTracker.add of object i after its store write.
AddResumed(i) ==
  /\ queue # <<>>
  /\ Head(queue).cont = <<"add", i>>
  /\ queue' = Tail(queue)

NeverFocused == focusOrder = <<>> /\ \A j \in Items : ~disposed[j]

\* C15: while no tracked object has ever taken focus, current is the most
\* recently added object that is still tracked; so the object that an
\* accepted add(obj) has just added is current.
C15_CurrentIsLastAdded ==
  [][\A i \in Items : \A k \in Names(i) :
       (Add(i, k) /\ Accepted(i) /\ ~injected[i] /\ NeverFocused /\ NeverFocused')
         => current' = i]_vars

\* The step is the disposal of object i.
DisposedNow(i) == ~disposed[i] /\ disposed'[i]

\* C16: in InstanceTracker, the disposal of the current object sets current
\* to null and emits currentChanged(null) exactly once, other objects being
\* tracked or not; the disposal of another object leaves current as it is
\* and emits no currentChanged.
C16_DisposalOfCurrent ==
  [][variant = "InstanceTracker" =>
       \A i \in Items :
         DisposedNow(i) =>
           IF current = i
           THEN current' = Null /\ emits' = <<EvCurrentChanged(Null)>>
           ELSE current' = current /\ emits' = <<>>]_vars

\* The tracked widgets that survive the step, in the order of their addition.
Survivors == SelectSeq(widgets', LAMBDA w : w \in instances' /\ ~disposed'[w])

\* C17: in WidgetTracker, when the current, non-injected widget is disposed,
\* the new current is the focus tracker's current widget if it has one, else
\* the most recently added widget that is still tracked, else null.  (Stated
\* for a current widget that is not the focus tracker's own current widget.)
C17_FallbackOnDisposal ==
  [][variant = "WidgetTracker" =>
       \A i \in Items :
         (DisposedNow(i) /\ current = i /\ ~injected[i]
            /\ FocusCurrent(focusOrder) # i) =>
           current' = IF FocusCurrent(focusOrder') # Null
                      THEN FocusCurrent(focusOrder')
                      ELSE IF Survivors # <<>> THEN Last(Survivors)
                      ELSE Null]_vars

\* C20: no disposed object is a member of the tracker: has(x) is false once
\* x is disposed, for an injected x too, and size, find, forEach and filter,
\* which go over the members, no longer count or visit it.
C20_DisposedNotMember ==
  \A i \in Items : disposed[i] => i \notin instances

\* save(obj) returns at its first test.
SaveSkips(i) == restoreOpts = <<>> \/ i \notin instances \/ injected[i]

\* The step settles the last store call of a save of object i.
SaveSettles(i) ==
  /\ queue # <<>>
  /\ Head(queue).cont[2] = i
  /\ \/ Head(queue).cont[1] = "saveWrite"
     \/ Head(queue).cont[1] = "saveRemove" /\ Head(queue).cont[4] = NoName
  /\ queue' = Tail(queue)

\* C18: a save(obj) that does not return at its first test emits `updated`
\* exactly once, when its last store call has succeeded, if the name it
\* computed differs from the name recorded when it was called, and does not
\* emit it if the two are the same; `updated` is emitted at no other moment;
\* a save(obj) that returns at its first test (no restore configuration, obj
\* not tracked, obj injected) changes nothing.
C18_UpdatedOnRename ==
  [][\A i \in Items :
       /\ \A k \in Names(i) :
            Save(i, k) =>
              /\ emits' = <<>>
              /\ SaveSkips(i) => UNCHANGED Observable
              /\ (~SaveSkips(i) /\ (nameProp[i] # NoName \/ k # 0)) =>
                   /\ Len(queue') = Len(queue) + 1
                   /\ Last(queue').cont[1] \in {"saveRemove", "saveWrite"}
                   /\ Last(queue').cont[2] = i
                   /\ Last(queue').cont[3] = nameProp[i]
                   /\ Last(queue').cont[4] = NewName(i, k)
       /\ SaveSettles(i) =>
            \/ emits' = <<<<"saveFailed", i>>>>
            \/ emits' = IF Head(queue).cont[3] # Head(queue).cont[4]
                        THEN <<EvUpdated(i)>> ELSE <<>>
       /\ (\E m \in DOMAIN emits' : emits'[m] = EvUpdated(i)) => SaveSettles(i)
       /\ (queue # <<>> /\ Head(queue).cont[1] = "saveRemove"
             /\ Head(queue).cont[2] = i /\ ~SaveSettles(i)
             /\ queue' # queue /\ Len(queue') <= Len(queue)) =>
            \/ emits' = <<<<"saveFailed", i>>>> /\ queue' = Tail(queue)
            \/ /\ emits' = <<>>
               /\ Len(queue') = Len(queue)
               /\ Last(queue').cont =
                    <<"saveWrite", i, Head(queue).cont[3], Head(queue).cont[4]>>]_vars

\* A save of a tracked object under a new name has just emitted `updated`.
C18_Witness ==
  \E i \in Items :
    /\ emits = <<EvUpdated(i)>>
    /\ i \in instances
    /\ nameProp[i] # NoName
    /\ RecordsOf(i) = {nameProp[i]}

\* The number of times the last step emitted `added` for object i.
AddedCount(i) == Cardinality({m \in DOMAIN emits : emits[m] = EvAdded(i)})

\* C19, as claimed: inject(obj) on an object that is neither disposed nor
\* tracked emits `added` exactly once for it.
C19_InjectEmitsAdded ==
  [][\A i \in Items : (Inject(i) /\ Accepted(i)) => AddedCount(i)' = 1]_vars

\* C19, amended: inject(obj) on an object that is neither disposed nor
\* tracked makes it a member without emitting `added`, and `added` is never
\* emitted for an object that came in through inject.
C19_InjectEmitsNoAdded ==
  [][\A i \in Items :
       /\ (Inject(i) /\ Accepted(i)) =>
            /\ i \in instances'
            /\ injected'[i]
            /\ AddedCount(i)' = 0
       /\ entered'[i] = "inject" => AddedCount(i)' = 0]_vars

\* An object has just been injected next to one that was added.
C19_Witness ==
  \E i, j \in Items :
    /\ entered[i] = "inject" /\ i \in instances /\ injected[i] /\ ~disposed[i]
    /\ entered[j] = "add" /\ j \in instances
    /\ emits = <<>>
    /\ current = j

\* The step appends a store call of this kind for object i under this id.
Issues(op, i, id) ==
  /\ Len(queue') = Len(queue) + 1
  /\ Last(queue').op = op
  /\ Last(queue').item = i
  /\ Last(queue').id = id

\* C21: an object that this tracker was given by add is handled by it as if
\* it had not been injected into a second tracker: add and save write its
\* record, a save under a new name ends with `updated`, and its disposal
\* removes it from the tracker, moves current away from it and removes its
\* record.
C21_InjectionElsewhereHarmless ==
  [][\A i \in Items :
       /\ \A k \in Names(i) :
            (Add(i, k) /\ Accepted(i) /\ restoreOpts # <<>> /\ k # 0) =>
              /\ i \in instances'
              /\ Issues("save", i, MakeId(i, k))
       /\ \A k \in Names(i) :
            (Save(i, k) /\ i \in instances /\ restoreOpts # <<>> /\ k # 0
               /\ nameProp[i] = NoName) =>
              Issues("save", i, MakeId(i, k))
       /\ (DisposedNow(i) /\ i \in instances) =>
            /\ i \notin instances'
            /\ current' # i
            /\ (restoreOpts # <<>> /\ nameProp[i] # NoName) =>
                 Issues("remove", i, nameProp[i])]_vars

\* C22: a call of inject that is refused (the object is disposed, or is
\* already held by this tracker) changes nothing, the object's injected flag
\* included.
C22_RejectedInjectChangesNothing ==
  [][\A i \in Items :
       (Inject(i) /\ ~Accepted(i)) =>
         /\ injected' = injected
         /\ Observable' = Observable]_vars

\* The values carried by the currentChanged emissions of the last step, in
\* the order of emission.
RECURSIVE ChangesIn(_)
ChangesIn(es) ==
  IF es = <<>> THEN <<>>
  ELSE IF es[1][1] = "currentChanged" THEN <<es[1][2]>> \o ChangesIn(Tail(es))
  ELSE ChangesIn(Tail(es))

\* C23: currentChanged is emitted on a real change only and once per change:
\* each emission carries a value other than the one current held just before
\* it, current ends as the last value emitted, current does not change
\* without an emission, and one disposal in the UI variant never emits the
\* same value twice.
C23_CurrentChangedOncePerChange ==
  [][LET vs == ChangesIn(emits') IN
       /\ \A m \in DOMAIN vs : vs[m] # (IF m = 1 THEN current ELSE vs[m - 1])
       /\ current' = (IF vs = <<>> THEN current ELSE Last(vs))
       /\ \A i \in Items :
            (variant = "WidgetTracker" /\ DisposedNow(i)) =>
              \A m, n \in DOMAIN vs : vs[m] = vs[n] => m = n]_vars

\* The UI variant has just fallen back to the last widget added when its
\* current widget was disposed, with one emission that carries the new
\* current widget.
C23_Witness ==
  /\ variant = "WidgetTracker"
  /\ focusOrder = <<>>
  /\ current # Null
  /\ emits = <<EvCurrentChanged(current)>>
  /\ \E i \in Items : disposed[i] /\ i \notin instances

====
